---- MODULE Spec2Model ----
(***************************************************************************)
(* A model of lib/index.ts: the abstract class Optional<T>, its two        *)
(* subclasses PresentOptional<T> and EmptyOptional<T>, and the static      *)
(* factories.  Objects created with `new` live in a heap and are named by  *)
(* their index, so that "returns this" and "throws the object the supplier *)
(* returned" are statements about identity.  Every method is an operator   *)
(* from the heap (and its arguments) to an effect: the heap after the      *)
(* call, the callbacks it invoked in order, and how it completed.          *)
(***************************************************************************)
EXTENDS Integers, Sequences, FiniteSets, TLC

VARIABLES heap, op, calls, outcome

vars == <<heap, op, calls, outcome>>

(* ------------------------------ bounds -------------------------------- *)

\* numbers 0..MaxVal are the non-null payloads a caller passes
MaxVal == 1

\* at most MaxHeap objects are ever allocated
MaxHeap == 2

(* --------------------------- JavaScript values ------------------------ *)

Null == [t |-> "null"]

Undefined == [t |-> "undefined"]

Num(n) == [t |-> "number", n |-> n]

Bool(b) == [t |-> "boolean", b |-> b]

Ref(i) == [t |-> "object", ref |-> i]

NonNullValues == {Num(n) : n \in 0..MaxVal}

Values == NonNullValues \cup {Null, Undefined}

\* `x !== null && x !== undefined`
IsNonNull(x) == x # Null /\ x # Undefined

(* ------------------------------ heap objects -------------------------- *)

MsgNullValue == "The passed value was null or undefined."

MsgNotPresent == "The optional is not present."

NewPresentOptional(value) == [cls |-> "PresentOptional", payload |-> value]

NewEmptyOptional == [cls |-> "EmptyOptional"]

NewTypeError(message) == [cls |-> "TypeError", message |-> message]

\* an error object made by the caller's errorSupplier
NewCallerError(message) == [cls |-> "Error", message |-> message]

OptionalClasses == {"PresentOptional", "EmptyOptional"}

OptionalRefs(h) == {i \in DOMAIN h : h[i].cls \in OptionalClasses}

ErrorRefs(h) == {i \in DOMAIN h : h[i].cls \notin OptionalClasses}

(* ------------------------ completions and effects --------------------- *)

Return(x) == [kind |-> "return", val |-> x]

Throw(x) == [kind |-> "throw", val |-> x]

\* one invocation of a callback: which parameter, its arguments, its result
Call(cb, args, ret) == [cb |-> cb, args |-> args, ret |-> ret]

Effect(h, cs, o) == [heap |-> h, calls |-> cs, outcome |-> o]

\* `new C(...)` evaluated and the reference returned
ReturnNew(h, obj) == Effect(Append(h, obj), <<>>, Return(Ref(Len(h) + 1)))

\* `throw new C(...)`
ThrowNew(h, obj) == Effect(Append(h, obj), <<>>, Throw(Ref(Len(h) + 1)))

(* ------------------------------ factories ----------------------------- *)

\* a faulty of: tests `if (value)`, so that 0 is refused like null
Optional_of_truthy(h, value) ==
    IF value \notin {Null, Undefined, Num(0)}
    THEN ReturnNew(h, NewPresentOptional(value))
    ELSE ThrowNew(h, NewTypeError(MsgNullValue))

Optional_of(h, value) ==
    IF value # Null /\ value # Undefined
    THEN ReturnNew(h, NewPresentOptional(value))
    ELSE ThrowNew(h, NewTypeError(MsgNullValue))

Optional_ofNonNull(h, value) == Optional_of(h, value)

\* a faulty ofNullable: tests `nullable !== null` alone
Optional_ofNullable_nullOnly(h, nullable) ==
    IF nullable # Null
    THEN ReturnNew(h, NewPresentOptional(nullable))
    ELSE ReturnNew(h, NewEmptyOptional)

Optional_ofNullable(h, nullable) ==
    IF nullable # Null /\ nullable # Undefined
    THEN ReturnNew(h, NewPresentOptional(nullable))
    ELSE ReturnNew(h, NewEmptyOptional)

Optional_empty(h) == ReturnNew(h, NewEmptyOptional)

(* ------------------------- the caller's callbacks --------------------- *)

\* another: () => T, a supplier of a plain value
ValueSuppliers == [{<<>>} -> Values]

\* predicate: (value: T) => boolean
Predicates == [NonNullValues -> BOOLEAN]

\* mapper: (value: T) => U | null | undefined
Mappers == [NonNullValues -> Values]

\* a function returning an Optional: one the caller holds already, or one it
\* builds from the factories when invoked
OptionalMappers(h) ==
    [via : {"captured"}, ref : OptionalRefs(h)]
        \cup [via : {"ofNullable"}, f : Mappers]
        \cup {[via |-> "empty"]}

OptionalSuppliers(h) ==
    [via : {"captured"}, ref : OptionalRefs(h)]
        \cup [via : {"ofNullable"}, v : Values]
        \cup {[via |-> "empty"]}

\* errorSupplier: () => U, where U is anything that can be thrown
ErrorSuppliers(h) ==
    [via : {"captured"}, ref : ErrorRefs(h)]
        \cup [via : {"new"}, message : {"custom", MsgNotPresent}]
        \cup [via : {"value"}, v : Values]

\* mapper(p) for a flatMap mapper: the heap after it ran and what it returned
CallOptionalMapper(h, mapper, p) ==
    CASE mapper.via = "captured" -> [heap |-> h, ret |-> Ref(mapper.ref)]
      [] mapper.via = "ofNullable" ->
            LET e == Optional_ofNullable(h, mapper.f[p])
            IN  [heap |-> e.heap, ret |-> e.outcome.val]
      [] mapper.via = "empty" ->
            LET e == Optional_empty(h)
            IN  [heap |-> e.heap, ret |-> e.outcome.val]

\* supplier() for an `or` supplier
CallOptionalSupplier(h, supplier) ==
    CASE supplier.via = "captured" -> [heap |-> h, ret |-> Ref(supplier.ref)]
      [] supplier.via = "ofNullable" ->
            LET e == Optional_ofNullable(h, supplier.v)
            IN  [heap |-> e.heap, ret |-> e.outcome.val]
      [] supplier.via = "empty" ->
            LET e == Optional_empty(h)
            IN  [heap |-> e.heap, ret |-> e.outcome.val]

\* errorSupplier()
CallErrorSupplier(h, exception) ==
    CASE exception.via = "captured" -> [heap |-> h, ret |-> Ref(exception.ref)]
      [] exception.via = "new" ->
            [heap |-> Append(h, NewCallerError(exception.message)),
             ret |-> Ref(Len(h) + 1)]
      [] exception.via = "value" -> [heap |-> h, ret |-> exception.v]

(* ----------------------------- PresentOptional ------------------------ *)

PresentOptional_isPresent(h, this) == Effect(h, <<>>, Return(Bool(TRUE)))

PresentOptional_get(h, this) == Effect(h, <<>>, Return(h[this].payload))

PresentOptional_ifPresent(h, this) ==
    Effect(h, <<Call("consumer", <<h[this].payload>>, Undefined)>>,
           Return(Undefined))

PresentOptional_ifPresentOrElse(h, this) ==
    Effect(h, <<Call("consumer", <<h[this].payload>>, Undefined)>>,
           Return(Undefined))

\* a faulty filter: the two branches of the conditional exchanged
PresentOptional_filter_inverted(h, this, predicate) ==
    LET test == predicate[h[this].payload]
        res  == IF test THEN Optional_empty(h)
                        ELSE Effect(h, <<>>, Return(Ref(this)))
    IN  Effect(res.heap,
               <<Call("predicate", <<h[this].payload>>, Bool(test))>>,
               res.outcome)

PresentOptional_filter(h, this, predicate) ==
    LET test == predicate[h[this].payload]
        res  == IF test THEN Effect(h, <<>>, Return(Ref(this)))
                        ELSE Optional_empty(h)
    IN  Effect(res.heap,
               <<Call("predicate", <<h[this].payload>>, Bool(test))>>,
               res.outcome)

\* a faulty map: wraps with Optional.of, which throws on null or undefined
PresentOptional_map_of(h, this, mapper) ==
    LET raw == mapper[h[this].payload]
        res == Optional_of(h, raw)
    IN  Effect(res.heap, <<Call("mapper", <<h[this].payload>>, raw)>>,
               res.outcome)

\* a faulty map: stores a non-null result in this.payload and returns this
PresentOptional_map_inPlace(h, this, mapper) ==
    LET raw == mapper[h[this].payload]
        res == IF IsNonNull(raw)
               THEN Effect([h EXCEPT ![this].payload = raw], <<>>,
                           Return(Ref(this)))
               ELSE Optional_empty(h)
    IN  Effect(res.heap, <<Call("mapper", <<h[this].payload>>, raw)>>,
               res.outcome)

PresentOptional_map(h, this, mapper) ==
    LET raw == mapper[h[this].payload]
        res == Optional_ofNullable(h, raw)
    IN  Effect(res.heap, <<Call("mapper", <<h[this].payload>>, raw)>>,
               res.outcome)

\* a faulty flatMap: unwraps the mapper's Optional and wraps it anew
PresentOptional_flatMap_rewrap(h, this, mapper) ==
    LET c     == CallOptionalMapper(h, mapper, h[this].payload)
        inner == c.heap[c.ret.ref]
        res   == Optional_ofNullable(c.heap,
                    IF inner.cls = "PresentOptional" THEN inner.payload ELSE Null)
    IN  Effect(res.heap, <<Call("mapper", <<h[this].payload>>, c.ret)>>,
               res.outcome)

PresentOptional_flatMap(h, this, mapper) ==
    LET c == CallOptionalMapper(h, mapper, h[this].payload)
    IN  Effect(c.heap, <<Call("mapper", <<h[this].payload>>, c.ret)>>,
               Return(c.ret))

PresentOptional_or(h, this, supplier) == Effect(h, <<>>, Return(Ref(this)))

PresentOptional_orElse(h, this, another) ==
    Effect(h, <<>>, Return(h[this].payload))

\* a faulty orElseGet: `this.orElse(another())`, the supplier always invoked
PresentOptional_orElseGet_eager(h, this, another) ==
    LET got == another[<<>>]
        e   == PresentOptional_orElse(h, this, got)
    IN  Effect(e.heap, <<Call("another", <<>>, got)>> \o e.calls, e.outcome)

PresentOptional_orElseGet(h, this, another) ==
    Effect(h, <<>>, Return(h[this].payload))

PresentOptional_orElseThrow(h, this, exception) ==
    Effect(h, <<>>, Return(h[this].payload))

(* ------------------------------ EmptyOptional ------------------------- *)

EmptyOptional_isPresent(h, this) == Effect(h, <<>>, Return(Bool(FALSE)))

\* a faulty get: `return this.payload` with no payload, which is undefined
EmptyOptional_get_undefined(h, this) == Effect(h, <<>>, Return(Undefined))

EmptyOptional_get(h, this) == ThrowNew(h, NewTypeError(MsgNotPresent))

EmptyOptional_ifPresent(h, this) == Effect(h, <<>>, Return(Undefined))

\* a faulty ifPresentOrElse: an empty body, as in ifPresent
EmptyOptional_ifPresentOrElse_noop(h, this) == Effect(h, <<>>, Return(Undefined))

EmptyOptional_ifPresentOrElse(h, this) ==
    Effect(h, <<Call("emptyAction", <<>>, Undefined)>>, Return(Undefined))

EmptyOptional_filter(h, this, predicate) == Effect(h, <<>>, Return(Ref(this)))

EmptyOptional_map(h, this, mapper) == Optional_empty(h)

EmptyOptional_flatMap(h, this, mapper) == Optional_empty(h)

EmptyOptional_or(h, this, supplier) ==
    LET c == CallOptionalSupplier(h, supplier)
    IN  Effect(c.heap, <<Call("supplier", <<>>, c.ret)>>, Return(c.ret))

EmptyOptional_orElse(h, this, another) == Effect(h, <<>>, Return(another))

\* `return this.orElse(another())`
EmptyOptional_orElseGet(h, this, another) ==
    LET got == another[<<>>]
        e   == EmptyOptional_orElse(h, this, got)
    IN  Effect(e.heap, <<Call("another", <<>>, got)>> \o e.calls, e.outcome)

\* a faulty orElseThrow: throws its own TypeError in place of the supplied one
EmptyOptional_orElseThrow_wrapped(h, this, exception) ==
    LET c == CallErrorSupplier(h, exception)
        t == ThrowNew(c.heap, NewTypeError(MsgNotPresent))
    IN  Effect(t.heap, <<Call("exception", <<>>, c.ret)>>, t.outcome)

EmptyOptional_orElseThrow(h, this, exception) ==
    LET c == CallErrorSupplier(h, exception)
    IN  Effect(c.heap, <<Call("exception", <<>>, c.ret)>>, Throw(c.ret))

(* ------------------ Optional: virtual dispatch and isEmpty ------------ *)

IsPresentObj(h, this) == h[this].cls = "PresentOptional"

Optional_isPresent(h, this) ==
    IF IsPresentObj(h, this) THEN PresentOptional_isPresent(h, this)
                             ELSE EmptyOptional_isPresent(h, this)

\* `return !this.isPresent`
Optional_isEmpty(h, this) ==
    LET e == Optional_isPresent(h, this)
    IN  Effect(e.heap, e.calls, Return(Bool(~e.outcome.val.b)))

Optional_get(h, this) ==
    IF IsPresentObj(h, this) THEN PresentOptional_get(h, this)
                             ELSE EmptyOptional_get(h, this)

Optional_ifPresent(h, this) ==
    IF IsPresentObj(h, this) THEN PresentOptional_ifPresent(h, this)
                             ELSE EmptyOptional_ifPresent(h, this)

Optional_ifPresentOrElse(h, this) ==
    IF IsPresentObj(h, this) THEN PresentOptional_ifPresentOrElse(h, this)
                             ELSE EmptyOptional_ifPresentOrElse(h, this)

Optional_filter(h, this, predicate) ==
    IF IsPresentObj(h, this) THEN PresentOptional_filter(h, this, predicate)
                             ELSE EmptyOptional_filter(h, this, predicate)

Optional_map(h, this, mapper) ==
    IF IsPresentObj(h, this) THEN PresentOptional_map(h, this, mapper)
                             ELSE EmptyOptional_map(h, this, mapper)

Optional_flatMap(h, this, mapper) ==
    IF IsPresentObj(h, this) THEN PresentOptional_flatMap(h, this, mapper)
                             ELSE EmptyOptional_flatMap(h, this, mapper)

Optional_or(h, this, supplier) ==
    IF IsPresentObj(h, this) THEN PresentOptional_or(h, this, supplier)
                             ELSE EmptyOptional_or(h, this, supplier)

Optional_orElse(h, this, another) ==
    IF IsPresentObj(h, this) THEN PresentOptional_orElse(h, this, another)
                             ELSE EmptyOptional_orElse(h, this, another)

Optional_orElseGet(h, this, another) ==
    IF IsPresentObj(h, this) THEN PresentOptional_orElseGet(h, this, another)
                             ELSE EmptyOptional_orElseGet(h, this, another)

Optional_orElseThrow(h, this, exception) ==
    IF IsPresentObj(h, this) THEN PresentOptional_orElseThrow(h, this, exception)
                             ELSE EmptyOptional_orElseThrow(h, this, exception)

(* ------------------------------ state machine ------------------------- *)

\* No call has been made yet and nothing is allocated.
Init ==
    /\ heap = <<>>
    /\ op = [name |-> "none", this |-> 0, args |-> <<>>]
    /\ calls = <<>>
    /\ outcome = Return(Undefined)

\* One complete call `name` on `this` (0 for a static factory) with the
\* non-callback arguments `args`, whose effect is e.
Do(name, this, args, e) ==
    /\ Len(e.heap) <= MaxHeap
    /\ heap' = e.heap
    /\ calls' = e.calls
    /\ outcome' = e.outcome
    /\ op' = [name |-> name, this |-> this, args |-> args]

Of == \E v \in Values : Do("of", 0, <<v>>, Optional_of(heap, v))

OfNonNull == \E v \in Values : Do("ofNonNull", 0, <<v>>, Optional_ofNonNull(heap, v))

OfNullable == \E v \in Values : Do("ofNullable", 0, <<v>>, Optional_ofNullable(heap, v))

Empty == Do("empty", 0, <<>>, Optional_empty(heap))

IsPresent == \E this \in OptionalRefs(heap) :
    Do("isPresent", this, <<>>, Optional_isPresent(heap, this))

IsEmpty == \E this \in OptionalRefs(heap) :
    Do("isEmpty", this, <<>>, Optional_isEmpty(heap, this))

Get == \E this \in OptionalRefs(heap) :
    Do("get", this, <<>>, Optional_get(heap, this))

IfPresent == \E this \in OptionalRefs(heap) :
    Do("ifPresent", this, <<>>, Optional_ifPresent(heap, this))

IfPresentOrElse == \E this \in OptionalRefs(heap) :
    Do("ifPresentOrElse", this, <<>>, Optional_ifPresentOrElse(heap, this))

Filter == \E this \in OptionalRefs(heap) : \E predicate \in Predicates :
    Do("filter", this, <<>>, Optional_filter(heap, this, predicate))

Map == \E this \in OptionalRefs(heap) : \E mapper \in Mappers :
    Do("map", this, <<>>, Optional_map(heap, this, mapper))

FlatMap == \E this \in OptionalRefs(heap) : \E mapper \in OptionalMappers(heap) :
    Do("flatMap", this, <<>>, Optional_flatMap(heap, this, mapper))

Or == \E this \in OptionalRefs(heap) : \E supplier \in OptionalSuppliers(heap) :
    Do("or", this, <<>>, Optional_or(heap, this, supplier))

OrElse == \E this \in OptionalRefs(heap) : \E another \in Values :
    Do("orElse", this, <<another>>, Optional_orElse(heap, this, another))

OrElseGet == \E this \in OptionalRefs(heap) : \E another \in ValueSuppliers :
    Do("orElseGet", this, <<>>, Optional_orElseGet(heap, this, another))

OrElseThrow == \E this \in OptionalRefs(heap) : \E exception \in ErrorSuppliers(heap) :
    Do("orElseThrow", this, <<>>, Optional_orElseThrow(heap, this, exception))

Next ==
    \/ Of
    \/ OfNonNull
    \/ OfNullable
    \/ Empty
    \/ IsPresent
    \/ IsEmpty
    \/ Get
    \/ IfPresent
    \/ IfPresentOrElse
    \/ Filter
    \/ Map
    \/ FlatMap
    \/ Or
    \/ OrElse
    \/ OrElseGet
    \/ OrElseThrow

Spec == Init /\ [][Next]_vars

(* ------------------------ vocabulary of the claims -------------------- *)

\* the receiver of the last call and its class
ThisIsPresent == op.this \in DOMAIN heap /\ heap[op.this].cls = "PresentOptional"

ThisIsEmpty == op.this \in DOMAIN heap /\ heap[op.this].cls = "EmptyOptional"

\* x is a reference to a PresentOptional of h holding p
IsPresentWith(h, x, p) ==
    /\ x.t = "object"
    /\ x.ref \in DOMAIN h
    /\ h[x.ref] = NewPresentOptional(p)

\* x is a reference to an EmptyOptional of h
IsEmptyRef(h, x) ==
    /\ x.t = "object"
    /\ x.ref \in DOMAIN h
    /\ h[x.ref] = NewEmptyOptional

\* x is a reference to an error object of h of class cls with this message
IsErrorRef(h, x, cls, message) ==
    /\ x.t = "object"
    /\ x.ref \in DOMAIN h
    /\ h[x.ref] = [cls |-> cls, message |-> message]

\* the callbacks ran: exactly one invocation, of parameter cb with args
CalledOnce(cs, cb, args) ==
    /\ Len(cs) = 1
    /\ cs[1].cb = cb
    /\ cs[1].args = args

(* ------------------------------- C1 ----------------------------------- *)

C1_Step ==
    LET v == op'.args[1]
    IN  /\ (op'.name \in {"of", "ofNonNull", "ofNullable"} /\ IsNonNull(v)) =>
              /\ outcome'.kind = "return"
              /\ IsPresentWith(heap', outcome'.val, v)
              /\ Optional_get(heap', outcome'.val.ref).outcome = Return(v)
        /\ (op'.name \in {"of", "ofNonNull"} /\ ~IsNonNull(v)) =>
              /\ outcome'.kind = "throw"
              /\ IsErrorRef(heap', outcome'.val, "TypeError", MsgNullValue)
              /\ OptionalRefs(heap') = OptionalRefs(heap)
        /\ (op'.name = "ofNullable" /\ ~IsNonNull(v)) =>
              /\ outcome'.kind = "return"
              /\ IsEmptyRef(heap', outcome'.val)

\* C1: of, ofNonNull and ofNullable classify every input alike: a value that
\* is neither null nor undefined gives a Present instance whose get() returns
\* it; for null and undefined, of and ofNonNull throw the TypeError "The passed
\* value was null or undefined." and create no Optional, while ofNullable
\* returns an Empty instance.
C1_FactoriesClassify == [][C1_Step]_vars

\* of(0) returned a Present instance, and of(null) threw
C1_Witness ==
    /\ op.name = "of"
    /\ op.args = <<Num(0)>>
    /\ outcome.kind = "return"
    /\ Len(heap) = 2
    /\ heap[1] = NewTypeError(MsgNullValue)

(* ------------------------------- C2 ----------------------------------- *)

\* C2: every Optional instance that the factories and the chains of filter,
\* map, flatMap and or create is Empty or Present with a payload that is
\* neither null nor undefined, what these calls return is such an instance,
\* and get() on a Present instance returns neither null nor undefined.
C2_PresentIsNonNull ==
    /\ \A i \in OptionalRefs(heap) :
          heap[i].cls = "PresentOptional" =>
              /\ IsNonNull(heap[i].payload)
              /\ Optional_get(heap, i).outcome.kind = "return"
              /\ IsNonNull(Optional_get(heap, i).outcome.val)
    /\ (op.name \in {"of", "ofNonNull", "ofNullable", "empty", "filter", "map",
                     "flatMap", "or"} /\ outcome.kind = "return") =>
          /\ outcome.val.t = "object"
          /\ outcome.val.ref \in OptionalRefs(heap)

\* a map whose mapper returned undefined, at the end of a chain
C2_Witness ==
    /\ op.name = "map"
    /\ ThisIsPresent
    /\ Len(calls) = 1
    /\ calls[1].ret = Undefined
    /\ IsEmptyRef(heap, outcome.val)

(* ------------------------------- C3 ----------------------------------- *)

\* the error object that of / ofNonNull throw
InvalidArgumentError ==
    LET e == Optional_of(<<>>, Null) IN e.heap[e.outcome.val.ref]

\* C3 as first stated: get() returns the payload when Present and, when Empty,
\* throws an error of a kind different from the kind of / ofNonNull throw.
C3_Original ==
    (op.name = "get") =>
        /\ ThisIsPresent => outcome = Return(heap[op.this].payload)
        /\ ThisIsEmpty =>
              /\ outcome.kind = "throw"
              /\ outcome.val.t = "object"
              /\ heap[outcome.val.ref].cls # InvalidArgumentError.cls

\* C3: get() returns the payload when Present; when Empty it returns no value
\* and throws a new TypeError, the very class of / ofNonNull throw on null or
\* undefined, set apart from that error by its message alone ("The optional is
\* not present." against "The passed value was null or undefined.").
C3_GetThrowsTypeError ==
    /\ (op.name = "get") =>
          /\ ThisIsPresent => outcome = Return(heap[op.this].payload)
          /\ ThisIsEmpty =>
                /\ outcome.kind = "throw"
                /\ outcome.val = Ref(Len(heap))
                /\ IsErrorRef(heap, outcome.val, "TypeError", MsgNotPresent)
                /\ heap[outcome.val.ref].cls = InvalidArgumentError.cls
                /\ heap[outcome.val.ref].message # InvalidArgumentError.message
    /\ (op.name \in {"of", "ofNonNull"} /\ outcome.kind = "throw") =>
          IsErrorRef(heap, outcome.val, "TypeError", MsgNullValue)

\* get() on an Empty instance has thrown
C3_Witness ==
    /\ op.name = "get"
    /\ ThisIsEmpty
    /\ outcome.kind = "throw"

(* ------------------------------- C4 ----------------------------------- *)

\* C4: map on a Present instance holding p invokes the mapper once, with p,
\* and returns what ofNullable returns for the mapper's result: a Present
\* instance holding it when it is neither null nor undefined, else an Empty
\* one; on an Empty instance it returns an Empty one and invokes nothing.
C4_MapWrapsNullable ==
    (op.name = "map") =>
        /\ ThisIsPresent =>
              /\ CalledOnce(calls, "mapper", <<heap[op.this].payload>>)
              /\ outcome.kind = "return"
              /\ outcome = Optional_ofNullable(SubSeq(heap, 1, Len(heap) - 1),
                                               calls[1].ret).outcome
              /\ IF IsNonNull(calls[1].ret)
                 THEN IsPresentWith(heap, outcome.val, calls[1].ret)
                 ELSE IsEmptyRef(heap, outcome.val)
        /\ ThisIsEmpty =>
              /\ calls = <<>>
              /\ outcome.kind = "return"
              /\ IsEmptyRef(heap, outcome.val)

\* a map that changed the payload: the mapper took p to another value
C4_Witness ==
    /\ op.name = "map"
    /\ ThisIsPresent
    /\ Len(calls) = 1
    /\ IsNonNull(calls[1].ret)
    /\ calls[1].ret # heap[op.this].payload
    /\ IsPresentWith(heap, outcome.val, calls[1].ret)

(* ------------------------------- C5 ----------------------------------- *)

\* C5: flatMap on a Present instance holding p invokes the mapper once, with
\* p, and returns the very Optional the mapper returned (the same object, so
\* that get() on the result is get() on the mapper's result); on an Empty
\* instance it returns an Empty one and invokes nothing.
C5_FlatMapReturnsMapperResult ==
    (op.name = "flatMap") =>
        /\ ThisIsPresent =>
              /\ CalledOnce(calls, "mapper", <<heap[op.this].payload>>)
              /\ outcome = Return(calls[1].ret)
              /\ calls[1].ret.t = "object"
              /\ calls[1].ret.ref \in OptionalRefs(heap)
        /\ ThisIsEmpty =>
              /\ calls = <<>>
              /\ outcome.kind = "return"
              /\ IsEmptyRef(heap, outcome.val)

\* a flatMap on a Present instance whose mapper returned another, Present one
C5_Witness ==
    /\ op.name = "flatMap"
    /\ ThisIsPresent
    /\ outcome.kind = "return"
    /\ outcome.val # Ref(op.this)
    /\ heap[outcome.val.ref].cls = "PresentOptional"

(* ------------------------------- C6 ----------------------------------- *)

\* C6: filter on a Present instance holding p returns a Present instance
\* holding p when predicate(p) is true and an Empty one when it is false; on
\* an Empty instance it returns an Empty one and never invokes the predicate.
C6_FilterKeepsOrEmpties ==
    (op.name = "filter") =>
        /\ ThisIsPresent =>
              /\ CalledOnce(calls, "predicate", <<heap[op.this].payload>>)
              /\ outcome.kind = "return"
              /\ IF calls[1].ret = Bool(TRUE)
                 THEN IsPresentWith(heap, outcome.val, heap[op.this].payload)
                 ELSE IsEmptyRef(heap, outcome.val)
        /\ ThisIsEmpty =>
              /\ calls = <<>>
              /\ outcome.kind = "return"
              /\ IsEmptyRef(heap, outcome.val)

\* a filter whose predicate rejected the payload
C6_Witness ==
    /\ op.name = "filter"
    /\ ThisIsPresent
    /\ Len(calls) = 1
    /\ calls[1].ret = Bool(FALSE)
    /\ IsEmptyRef(heap, outcome.val)

(* ------------------------------- C7 ----------------------------------- *)

\* C7: one call of ifPresentOrElse runs exactly one callback, once, before it
\* returns: consumer with the payload when Present, emptyAction when Empty;
\* one call of ifPresent runs consumer once with the payload when Present and
\* runs nothing when Empty.
C7_ExactlyOneCallback ==
    /\ (op.name = "ifPresentOrElse") =>
          /\ outcome = Return(Undefined)
          /\ ThisIsPresent => CalledOnce(calls, "consumer", <<heap[op.this].payload>>)
          /\ ThisIsEmpty => CalledOnce(calls, "emptyAction", <<>>)
    /\ (op.name = "ifPresent") =>
          /\ outcome = Return(Undefined)
          /\ ThisIsPresent => CalledOnce(calls, "consumer", <<heap[op.this].payload>>)
          /\ ThisIsEmpty => calls = <<>>

\* ifPresentOrElse on an Empty instance ran emptyAction
C7_Witness ==
    /\ op.name = "ifPresentOrElse"
    /\ ThisIsEmpty
    /\ Len(calls) = 1
    /\ calls[1].cb = "emptyAction"

(* ------------------------------- C8 ----------------------------------- *)

\* C8: on a Present instance holding p, or returns the instance itself and
\* orElse and orElseGet return p, and no supplier is invoked; on an Empty
\* instance, or returns the Optional its supplier returned and orElseGet the
\* value its supplier returned, each supplier invoked once, and orElse
\* returns its argument and invokes nothing.
C8_FallbacksShortCircuit ==
    /\ (op.name = "or") =>
          /\ ThisIsPresent => (calls = <<>> /\ outcome = Return(Ref(op.this)))
          /\ ThisIsEmpty =>
                /\ CalledOnce(calls, "supplier", <<>>)
                /\ outcome = Return(calls[1].ret)
                /\ calls[1].ret.t = "object"
                /\ calls[1].ret.ref \in OptionalRefs(heap)
    /\ (op.name = "orElse") =>
          /\ calls = <<>>
          /\ ThisIsPresent => outcome = Return(heap[op.this].payload)
          /\ ThisIsEmpty => outcome = Return(op.args[1])
    /\ (op.name = "orElseGet") =>
          /\ ThisIsPresent =>
                (calls = <<>> /\ outcome = Return(heap[op.this].payload))
          /\ ThisIsEmpty =>
                /\ CalledOnce(calls, "another", <<>>)
                /\ outcome = Return(calls[1].ret)

\* or on an Empty instance returned its supplier's Present instance
C8_Witness ==
    /\ op.name = "or"
    /\ ThisIsEmpty
    /\ Len(calls) = 1
    /\ outcome.kind = "return"
    /\ heap[outcome.val.ref].cls = "PresentOptional"

(* ------------------------------- C9 ----------------------------------- *)

\* C9: orElseThrow on a Present instance returns the payload and never
\* invokes errorSupplier; on an Empty instance it invokes errorSupplier once,
\* returns nothing and throws the very value errorSupplier returned.
C9_OrElseThrowPropagates ==
    (op.name = "orElseThrow") =>
        /\ ThisIsPresent =>
              (calls = <<>> /\ outcome = Return(heap[op.this].payload))
        /\ ThisIsEmpty =>
              /\ CalledOnce(calls, "exception", <<>>)
              /\ outcome = Throw(calls[1].ret)

\* orElseThrow on an Empty instance threw an error object of the caller
C9_Witness ==
    /\ op.name = "orElseThrow"
    /\ ThisIsEmpty
    /\ outcome.kind = "throw"
    /\ outcome.val.t = "object"
    /\ heap[outcome.val.ref].cls = "Error"

(* ------------------------------- C10 ---------------------------------- *)

\* what a caller sees of instance i: isPresent, and how get() completes
Observe(h, i) ==
    LET g == Optional_get(h, i)
    IN  [isPresent |-> Optional_isPresent(h, i).outcome.val,
         get |-> IF g.outcome.kind = "return"
                 THEN g.outcome
                 ELSE Throw(g.heap[g.outcome.val.ref])]

C10_Step ==
    \A i \in OptionalRefs(heap) :
        /\ i \in DOMAIN heap'
        /\ heap'[i] = heap[i]
        /\ Observe(heap', i) = Observe(heap, i)

\* C10: no call changes the class or the payload of an existing instance,
\* whether it returns or throws: isPresent and the outcome of get() stay what
\* they were when the instance was constructed.
C10_Immutable == [][C10_Step]_vars

\* a Present instance, still Present after a flatMap on it returned an Empty
\* one
C10_Witness ==
    /\ op.name = "flatMap"
    /\ ThisIsPresent
    /\ outcome.kind = "return"
    /\ IsEmptyRef(heap, outcome.val)

====
